---- MODULE Spec2Model ----
\* Signed-triangle classification of luccanunes/mc859:
\*   entrega-final/equilibrio_fraco.py     analyze_weak_balance (global pass)
\*   entrega-final/encontrar_triangulos.py load_data, find_frustrated_triangles
\* A file is a sequence of lines, a line the sequence of its whitespace-separated
\* tokens (the value of line.strip().split()), a token a sequence of characters.
EXTENDS Integers, Sequences, FiniteSets, TLC

VARIABLES
    file,           \* the lines of the input file
    fileExists,     \* FALSE: open() raises FileNotFoundError
    pos_thresh,     \* parameter pos_thresh
    neg_thresh,     \* parameter neg_thresh
    pc,             \* position of analyze_weak_balance
    fpos,           \* index of the next line the file iterator yields
    lines_read,     \* counter lines_read
    G_sentiment,    \* the weighted graph
    diag,           \* the "Ignorando linha" messages printed by the loader
    bi,             \* position of the binarization loop in G_sentiment.edges
    G_bin,          \* the signed graph (of either tool)
    ni,             \* position of the outer loop in G_bin.nodes()
    ci,             \* position of the inner loop in combinations(neighbors_u, 2)
    counts,         \* the dict counts
    accepted,       \* the triangles the global pass has classified, in order
    outcome,        \* which final report analyze_weak_balance printed
    ratio,          \* frustration_ratio_weak as <<numerator, denominator>>
    lpc,            \* position of the local tool (load_data, then the searches)
    root,           \* parameter root_node_id of the running search
    limit,          \* parameter limit of the running search
    vi,             \* position of the loop over neighbors_u
    wi,             \* position of the loop over G_bin.neighbors(v)
    seen_pairs,     \* the set seen_pairs
    frustrated_count, \* counter frustrated_count
    found,          \* the frustrated triangles found by the search, in order
    printed,        \* the "Triângulo #k" blocks printed by the search
    report,         \* what the search printed at its end
    first,          \* what the previous call of analyze_weak_balance reported
    rpc,            \* position of make_request_with_backoff
    max_retries,    \* parameter max_retries
    initial_backoff, \* parameter initial_backoff
    ri,             \* the loop variable i of make_request_with_backoff
    backoff_time,   \* local backoff_time
    statuses,       \* what each requests.get of this call ended with, in order
    sleeps,         \* the arguments of the time.sleep calls of this call, in order
    response,       \* the value make_request_with_backoff returns
    cpc,            \* position of collect_reviews_for_games
    game_list,      \* parameter game_list (the appids)
    max_review_pages, \* parameter max_review_pages
    gi,             \* position of the loop over game_list
    page_num,       \* loop variable page_num
    reviews_data,   \* the dict reviews_data (its keys)
    cache,          \* the appids that have a cache file
    reviews_by_game, \* the dict reviews_by_game: appid -> where its reviews came from
    requested,      \* the appids an HTTP request was issued for in this run
    downloads,      \* the calls of make_request_with_backoff for the current game
    run,            \* 1: first run of collect_reviews_for_games, 2: the repeated run
    firstMap        \* the keys of the mapping the first run returned

requestVars == <<rpc, max_retries, initial_backoff, ri, backoff_time, statuses, sleeps,
                 response>>

collectVars == <<cpc, game_list, max_review_pages, gi, page_num, reviews_data, cache,
                 reviews_by_game, requested, downloads, run, firstMap>>

netVars == <<requestVars, collectVars>>

vars == <<file, fileExists, pos_thresh, neg_thresh, pc, fpos, lines_read,
          G_sentiment, diag, bi, G_bin, ni, ci, counts, accepted, outcome, ratio,
          lpc, root, limit, vi, wi, seen_pairs, frustrated_count, found, printed,
          report, first, netVars>>

globalVars == <<pc, fpos, lines_read, G_sentiment, diag, bi, ni, ci, counts,
                accepted, outcome, ratio>>

localVars == <<lpc, root, limit, vi, wi, seen_pairs, frustrated_count, found,
               printed, report>>

inputVars == <<file, fileExists, pos_thresh, neg_thresh>>

----------------------------------------------------------------------------
\* Bounds of the model

MaxLines == 3       \* a file of analyze_weak_balance has at most this many lines
MaxLocalLines == 4  \* load_data reads at most this many lines after the first
MaxLimit == 2       \* the print limit of a search is 0..MaxLimit
MaxWideLines == 5   \* a file on four nodes has at most this many lines

----------------------------------------------------------------------------
\* Characters, tokens, and Python's str / int / float on them

Range(s) == {s[i] : i \in DOMAIN s}

\* ord(c) of the characters the inputs are written with
CharCode(c) ==
    CASE c = "-" -> 45
      [] c = "0" -> 48
      [] c = "1" -> 49
      [] c = "2" -> 50
      [] c = "9" -> 57
      [] c = "x" -> 120

DigitChars == {"0", "1", "2", "9"}

\* mutant of StrGt: only the first characters are compared
StrGtFirstChar(a, b) ==
    a # <<>> /\ (b = <<>> \/ CharCode(Head(a)) > CharCode(Head(b)))

\* str(a) > str(b): Python compares strings character by character
RECURSIVE StrGt(_, _)
StrGt(a, b) ==
    IF a = <<>> THEN FALSE
    ELSE IF b = <<>> THEN TRUE
    ELSE IF CharCode(Head(a)) # CharCode(Head(b))
         THEN CharCode(Head(a)) > CharCode(Head(b))
         ELSE StrGt(Tail(a), Tail(b))

\* the value of a string of decimal digits
RECURSIVE DigitsValue(_, _)
DigitsValue(t, acc) ==
    IF t = <<>> THEN acc
    ELSE DigitsValue(Tail(t), 10 * acc + (CharCode(Head(t)) - CharCode("0")))

AllDigits(t) == t # <<>> /\ \A i \in DOMAIN t : t[i] \in DigitChars

\* int(t) and float(t) succeed (over this alphabet: an optional sign, then digits);
\* otherwise they raise ValueError
IsNumber(t) ==
    \/ AllDigits(t)
    \/ (t # <<>> /\ Head(t) = "-" /\ AllDigits(Tail(t)))

\* the value of int(t) / float(t) when it succeeds
NumValue(t) ==
    IF Head(t) = "-" THEN 0 - DigitsValue(Tail(t), 0) ELSE DigitsValue(t, 0)

----------------------------------------------------------------------------
\* networkx.Graph: the nodes in insertion order and, per node, its neighbours in
\* insertion order, each with the attribute of the edge (weight or sign)

EmptyGraph == [nodes |-> <<>>, adj |-> <<>>]

HasNode(G, n) == n \in Range(G.nodes)

NodeIndex(G, n) == CHOOSE i \in DOMAIN G.nodes : G.nodes[i] = n

Row(G, n) == G.adj[NodeIndex(G, n)]

AddNode(G, n) ==
    IF HasNode(G, n) THEN G
    ELSE [nodes |-> Append(G.nodes, n), adj |-> Append(G.adj, <<>>)]

\* mutant of SetNbr: an edge that exists keeps its first attribute
SetNbrKeepFirst(row, v, d) ==
    IF \E i \in DOMAIN row : row[i].nbr = v
    THEN row
    ELSE Append(row, [nbr |-> v, data |-> d])

SetNbr(row, v, d) ==
    IF \E i \in DOMAIN row : row[i].nbr = v
    THEN [i \in DOMAIN row |-> IF row[i].nbr = v THEN [nbr |-> v, data |-> d]
                                                    ELSE row[i]]
    ELSE Append(row, [nbr |-> v, data |-> d])

AddEdge(G, u, v, d) ==
    LET G2 == AddNode(AddNode(G, u), v)
        a1 == [G2.adj EXCEPT ![NodeIndex(G2, u)] = SetNbr(@, v, d)]
        a2 == [a1 EXCEPT ![NodeIndex(G2, v)] = SetNbr(@, u, d)]
    IN  [nodes |-> G2.nodes, adj |-> a2]

Neighbors(G, n) == LET r == Row(G, n) IN [i \in DOMAIN r |-> r[i].nbr]

HasEdge(G, u, v) ==
    HasNode(G, u) /\ LET r == Row(G, u) IN \E i \in DOMAIN r : r[i].nbr = v

EdgeData(G, u, v) ==
    LET r == Row(G, u) IN r[CHOOSE i \in DOMAIN r : r[i].nbr = v].data

\* G.edges(data=True): node by node, each edge reported from its first endpoint
RECURSIVE EdgesFrom(_, _)
EdgesFrom(G, i) ==
    IF i > Len(G.nodes) THEN <<>>
    ELSE LET n    == G.nodes[i]
             done == {G.nodes[j] : j \in 1..(i - 1)}
             row  == SelectSeq(G.adj[i], LAMBDA e : e.nbr \notin done)
         IN  [k \in DOMAIN row |-> [u |-> n, v |-> row[k].nbr, data |-> row[k].data]]
             \o EdgesFrom(G, i + 1)

Edges(G) == EdgesFrom(G, 1)

NumberOfEdges(G) == Len(Edges(G))

\* itertools.combinations(s, 2)
RECURSIVE Combinations2(_)
Combinations2(s) ==
    IF Len(s) < 2 THEN <<>>
    ELSE [j \in 1..(Len(s) - 1) |-> <<s[1], s[j + 1]>>] \o Combinations2(Tail(s))

----------------------------------------------------------------------------
\* The inputs the model draws from

T1  == <<"1">>          \* the token "1"
T10 == <<"1", "0">>     \* the token "10"
T2  == <<"2">>          \* the token "2"
T9  == <<"9">>          \* the token "9"
Tm2 == <<"-", "2">>     \* the token "-2"
T0  == <<"0">>          \* the token "0"
Tx  == <<"x">>          \* the token "x"

NodeIds == {T10, T2, T9}

LinePool ==
    { <<T10, T2, T2>>,  <<T10, T2, Tm2>>,      \* 10 2 2     10 2 -2
      <<T10, T9, T2>>,  <<T10, T9, Tm2>>,      \* 10 9 2     10 9 -2
      <<T2, T9, T2>>,   <<T2, T9, Tm2>>,       \* 2 9 2      2 9 -2
      <<T2, T9, T0>>,                          \* 2 9 0
      <<T9, T10, T2>>,                         \* 9 10 2
      <<T10, T10, Tm2>>,                       \* 10 10 -2   (a self-loop)
      <<T2, T9>>,                              \* 2 9        (two tokens)
      <<T2, T9, Tx>>,                          \* 2 9 x      (weight not a number)
      <<>> }                                   \* an empty line

Files == UNION {[1..n -> LinePool] : n \in 0..MaxLines}

\* <<pos_thresh, neg_thresh>>: conventional, with a weight on each threshold,
\* and overlapping
ThresholdPairs == {<<1, -1>>, <<0, -2>>, <<-2, 2>>}

Classes == {"+++", "++-", "+--", "---"}

None == <<>>

ZeroCounts == [c \in Classes |-> 0]

\* main.py is not running
NetOff ==
    /\ rpc = "off"
    /\ max_retries = 0
    /\ initial_backoff = 0
    /\ ri = 0
    /\ backoff_time = 0
    /\ statuses = <<>>
    /\ sleeps = <<>>
    /\ response = None
    /\ cpc = "off"
    /\ game_list = <<>>
    /\ max_review_pages = 0
    /\ gi = 1
    /\ page_num = 0
    /\ reviews_data = {}
    /\ cache = {}
    /\ reviews_by_game = <<>>
    /\ requested = {}
    /\ downloads = 0
    /\ run = 1
    /\ firstMap = {}

----------------------------------------------------------------------------
\* analyze_weak_balance, step 1: the loader

\* mutant of HeaderFound: any first line is taken for the header
HeaderFoundAnyLine(f) == f # <<>>

\* the first line parses as n, m = map(int, first_line.split())
HeaderFound(f) ==
    f # <<>> /\ Len(f[1]) = 2 /\ IsNumber(f[1][1]) /\ IsNumber(f[1][2])

\* mutant of LoadLine: the endpoints are added before float(w) raises
LoadLineNodesFirst(G, parts) ==
    IF Len(parts) = 3
    THEN IF IsNumber(parts[3])
         THEN AddEdge(G, parts[1], parts[2], NumValue(parts[3]))
         ELSE AddNode(AddNode(G, parts[1]), parts[2])
    ELSE G

\* the body of the loop over the lines: the graph after the line
LoadLine(G, parts) ==
    IF Len(parts) = 3 /\ IsNumber(parts[3])
    THEN AddEdge(G, parts[1], parts[2], NumValue(parts[3]))
    ELSE G

\* the message the loop prints for the line
LineDiag(parts) ==
    IF Len(parts) = 3
    THEN IF IsNumber(parts[3]) THEN "none" ELSE "erro de dados"
    ELSE IF Len(parts) > 0 THEN "formato inesperado" ELSE "none"

OpenMissing ==
    /\ pc = "open"
    /\ ~fileExists
    /\ pc' = "done"
    /\ outcome' = "file_not_found"
    /\ UNCHANGED <<fpos, lines_read, G_sentiment, diag, bi, G_bin, ni, ci, counts,
                   accepted, ratio>>
    /\ UNCHANGED <<netVars, first, inputVars, localVars>>

ReadHeader ==
    /\ pc = "open"
    /\ fileExists
    /\ pc' = "load"
    /\ IF HeaderFound(file)
       THEN fpos' = 2 /\ lines_read' = lines_read + 1
       ELSE fpos' = 1 /\ UNCHANGED lines_read
    /\ UNCHANGED <<G_sentiment, diag, bi, G_bin, ni, ci, counts, accepted, outcome,
                   ratio>>
    /\ UNCHANGED <<netVars, first, inputVars, localVars>>

ReadLine ==
    /\ pc = "load"
    /\ fpos <= Len(file)
    /\ LET parts == file[fpos]
           d     == LineDiag(parts)
       IN  /\ lines_read' = lines_read + 1
           /\ G_sentiment' = LoadLine(G_sentiment, parts)
           /\ diag' = IF d = "none" THEN diag
                      ELSE Append(diag, [line |-> lines_read + 1, kind |-> d])
    /\ fpos' = fpos + 1
    /\ UNCHANGED <<pc, bi, G_bin, ni, ci, counts, accepted, outcome, ratio>>
    /\ UNCHANGED <<netVars, first, inputVars, localVars>>

EndOfFile ==
    /\ pc = "load"
    /\ fpos > Len(file)
    /\ pc' = "binarize"
    /\ bi' = 1
    /\ G_bin' = EmptyGraph
    /\ UNCHANGED <<fpos, lines_read, G_sentiment, diag, ni, ci, counts, accepted,
                   outcome, ratio>>
    /\ UNCHANGED <<netVars, first, inputVars, localVars>>

----------------------------------------------------------------------------
\* analyze_weak_balance, step 2: the binarizer

\* mutant of SignOf: the comparisons are not strict
SignOfInclusive(weight, pos, neg) ==
    IF weight >= pos THEN 1 ELSE IF weight <= neg THEN -1 ELSE 0

\* mutant of SignOf: the negative threshold is tested first
SignOfNegativeFirst(weight, pos, neg) ==
    IF weight < neg THEN -1 ELSE IF weight > pos THEN 1 ELSE 0

SignOf(weight, pos, neg) ==
    IF weight > pos THEN 1 ELSE IF weight < neg THEN -1 ELSE 0

\* mutant of BinarizeStep: without the two add_node calls
BinarizeStepEdgesOnly(Gb, e, pos, neg) ==
    LET s == SignOf(e.data, pos, neg)
    IN  IF s # 0 THEN AddEdge(Gb, e.u, e.v, s) ELSE Gb

\* the body of the loop over G_sentiment.edges(data=True)
BinarizeStep(Gb, e, pos, neg) ==
    LET G2 == AddNode(AddNode(Gb, e.u), e.v)
        s  == SignOf(e.data, pos, neg)
    IN  IF s # 0 THEN AddEdge(G2, e.u, e.v, s) ELSE G2

BinarizeEdge ==
    /\ pc = "binarize"
    /\ bi <= NumberOfEdges(G_sentiment)
    /\ G_bin' = BinarizeStep(G_bin, Edges(G_sentiment)[bi], pos_thresh, neg_thresh)
    /\ bi' = bi + 1
    /\ UNCHANGED <<pc, fpos, lines_read, G_sentiment, diag, ni, ci, counts,
                   accepted, outcome, ratio>>
    /\ UNCHANGED <<netVars, first, inputVars, localVars>>

\* mutant of BinarizedEmpty: no return, the counting loop starts
BinarizedEmptyFallsThrough ==
    /\ pc = "binarize"
    /\ bi > NumberOfEdges(G_sentiment)
    /\ NumberOfEdges(G_bin) = 0
    /\ pc' = "count"
    /\ ni' = 1
    /\ ci' = 1
    /\ UNCHANGED <<fpos, lines_read, G_sentiment, diag, bi, G_bin, counts,
                   accepted, outcome, ratio>>
    /\ UNCHANGED <<netVars, first, inputVars, localVars>>

\* the signed graph has no edge: the warning, and return
BinarizedEmpty ==
    /\ pc = "binarize"
    /\ bi > NumberOfEdges(G_sentiment)
    /\ NumberOfEdges(G_bin) = 0
    /\ pc' = "done"
    /\ outcome' = "no_edges"
    /\ UNCHANGED <<fpos, lines_read, G_sentiment, diag, bi, G_bin, ni, ci, counts,
                   accepted, ratio>>
    /\ UNCHANGED <<netVars, first, inputVars, localVars>>

\* mutant of BinarizedStartCount: the dict counts is not created anew
BinarizedStartCountKeepsCounts ==
    /\ pc = "binarize"
    /\ bi > NumberOfEdges(G_sentiment)
    /\ NumberOfEdges(G_bin) # 0
    /\ pc' = "count"
    /\ ni' = 1
    /\ ci' = 1
    /\ UNCHANGED <<fpos, lines_read, G_sentiment, diag, bi, G_bin, counts,
                   accepted, outcome, ratio>>
    /\ UNCHANGED <<netVars, first, inputVars, localVars>>

\* the signed graph has edges: counts = {...} and the counting loop starts
BinarizedStartCount ==
    /\ pc = "binarize"
    /\ bi > NumberOfEdges(G_sentiment)
    /\ NumberOfEdges(G_bin) # 0
    /\ pc' = "count"
    /\ ni' = 1
    /\ ci' = 1
    /\ counts' = ZeroCounts
    /\ accepted' = <<>>
    /\ UNCHANGED <<fpos, lines_read, G_sentiment, diag, bi, G_bin, outcome, ratio>>
    /\ UNCHANGED <<netVars, first, inputVars, localVars>>

----------------------------------------------------------------------------
\* analyze_weak_balance, step 3: the counting loop

\* mutant of Classify: the sum is tested against 1 instead of 0
ClassifySumAboveOne(s_uv, s_uw, s_vw) ==
    IF s_uv * s_uw * s_vw = 1
    THEN IF s_uv + s_uw + s_vw > 1 THEN "+++" ELSE "+--"
    ELSE IF s_uv + s_uw + s_vw > 1 THEN "++-" ELSE "---"

\* mutant of Classify: the sign of the first edge stands for the sum
ClassifyByFirstSign(s_uv, s_uw, s_vw) ==
    IF s_uv * s_uw * s_vw = 1
    THEN IF s_uv > 0 THEN "+++" ELSE "+--"
    ELSE IF s_uv > 0 THEN "++-" ELSE "---"

\* the class whose counter the loop increments
Classify(s_uv, s_uw, s_vw) ==
    IF s_uv * s_uw * s_vw = 1
    THEN IF s_uv + s_uw + s_vw > 0 THEN "+++" ELSE "+--"
    ELSE IF s_uv + s_uw + s_vw > 0 THEN "++-" ELSE "---"

\* mutant of Accepts: without the ordering test
AcceptsAnyOrder(G, u, v, w) == HasEdge(G, v, w)

\* mutant of Accepts: only u is compared with v
AcceptsFirstTestOnly(G, u, v, w) == HasEdge(G, v, w) /\ ~StrGt(u, v)

\* the pair (v, w) of neighbours of u passes the two tests of the loop body
Accepts(G, u, v, w) ==
    /\ HasEdge(G, v, w)
    /\ ~(StrGt(u, v) \/ StrGt(v, w))

TriangleAt(G, u, v, w) ==
    LET s_uv == EdgeData(G, u, v)
        s_uw == EdgeData(G, u, w)
        s_vw == EdgeData(G, v, w)
    IN  [u |-> u, v |-> v, w |-> w, s_uv |-> s_uv, s_uw |-> s_uw, s_vw |-> s_vw,
         cls |-> Classify(s_uv, s_uw, s_vw)]

PairsOf(G, u) == Combinations2(Neighbors(G, u))

\* len(neighbors_u) < 2: continue
CountSkipNode ==
    /\ pc = "count"
    /\ ni <= Len(G_bin.nodes)
    /\ Len(Neighbors(G_bin, G_bin.nodes[ni])) < 2
    /\ ni' = ni + 1
    /\ UNCHANGED <<pc, fpos, lines_read, G_sentiment, diag, bi, G_bin, ci, counts,
                   accepted, outcome, ratio>>
    /\ UNCHANGED <<netVars, first, inputVars, localVars>>

\* mutant of Increment: the counter is assigned, not added to
IncrementAssigns(cnt, cls) == [cnt EXCEPT ![cls] = 1]

\* counts[cls] += 1
Increment(cnt, cls) == [cnt EXCEPT ![cls] = @ + 1]

\* one iteration of the loop over combinations(neighbors_u, 2)
CountPair ==
    /\ pc = "count"
    /\ ni <= Len(G_bin.nodes)
    /\ LET u     == G_bin.nodes[ni]
           pairs == PairsOf(G_bin, u)
       IN  /\ Len(Neighbors(G_bin, u)) >= 2
           /\ ci <= Len(pairs)
           /\ LET v == pairs[ci][1]
                  w == pairs[ci][2]
              IN  IF Accepts(G_bin, u, v, w)
                  THEN LET t == TriangleAt(G_bin, u, v, w)
                       IN  /\ counts' = Increment(counts, t.cls)
                           /\ accepted' = Append(accepted, t)
                  ELSE UNCHANGED <<counts, accepted>>
    /\ ci' = ci + 1
    /\ UNCHANGED <<pc, fpos, lines_read, G_sentiment, diag, bi, G_bin, ni, outcome,
                   ratio>>
    /\ UNCHANGED <<netVars, first, inputVars, localVars>>

\* the combinations of this node are exhausted: the next node
CountNextNode ==
    /\ pc = "count"
    /\ ni <= Len(G_bin.nodes)
    /\ Len(Neighbors(G_bin, G_bin.nodes[ni])) >= 2
    /\ ci > Len(PairsOf(G_bin, G_bin.nodes[ni]))
    /\ ni' = ni + 1
    /\ ci' = 1
    /\ UNCHANGED <<pc, fpos, lines_read, G_sentiment, diag, bi, G_bin, counts,
                   accepted, outcome, ratio>>
    /\ UNCHANGED <<netVars, first, inputVars, localVars>>

----------------------------------------------------------------------------
\* analyze_weak_balance, step 4: the results

Total(c) == c["+++"] + c["++-"] + c["+--"] + c["---"]

\* mutant of FrustrationRatio: the wrong counter is the numerator
FrustrationRatioOfBalanced(c) == <<c["+--"], Total(c)>>

\* frustration_ratio_weak = counts['++-'] / total_triangulos, as a fraction
FrustrationRatio(c) == <<c["++-"], Total(c)>>

ReportNoTriangles ==
    /\ pc = "count"
    /\ ni > Len(G_bin.nodes)
    /\ Total(counts) = 0
    /\ pc' = "done"
    /\ outcome' = "no_triangles"
    /\ UNCHANGED <<fpos, lines_read, G_sentiment, diag, bi, G_bin, ni, ci, counts,
                   accepted, ratio>>
    /\ UNCHANGED <<netVars, first, inputVars, localVars>>

ReportRatio ==
    /\ pc = "count"
    /\ ni > Len(G_bin.nodes)
    /\ Total(counts) # 0
    /\ pc' = "done"
    /\ outcome' = "ratio"
    /\ ratio' = FrustrationRatio(counts)
    /\ UNCHANGED <<fpos, lines_read, G_sentiment, diag, bi, G_bin, ni, ci, counts,
                   accepted>>
    /\ UNCHANGED <<netVars, first, inputVars, localVars>>

----------------------------------------------------------------------------
\* The run of analyze_weak_balance on one input

Init ==
    /\ \/ fileExists = TRUE /\ file \in Files
       \/ fileExists = FALSE /\ file = <<>>
    /\ \E th \in ThresholdPairs : pos_thresh = th[1] /\ neg_thresh = th[2]
    /\ pc = "open"
    /\ fpos = 1
    /\ lines_read = 0
    /\ G_sentiment = EmptyGraph
    /\ diag = <<>>
    /\ bi = 1
    /\ G_bin = EmptyGraph
    /\ ni = 1
    /\ ci = 1
    /\ counts = ZeroCounts
    /\ accepted = <<>>
    /\ outcome = "none"
    /\ ratio = None
    /\ lpc = "off"
    /\ root = None
    /\ limit = 0
    /\ vi = 1
    /\ wi = 1
    /\ seen_pairs = {}
    /\ frustrated_count = 0
    /\ found = <<>>
    /\ printed = <<>>
    /\ report = None
    /\ first = None
    /\ NetOff

Next ==
    \/ OpenMissing
    \/ ReadHeader
    \/ ReadLine
    \/ EndOfFile
    \/ BinarizeEdge
    \/ BinarizedEmpty
    \/ BinarizedStartCount
    \/ CountSkipNode
    \/ CountPair
    \/ CountNextNode
    \/ ReportNoTriangles
    \/ ReportRatio

Spec == Init /\ [][Next]_vars

\* files on the four nodes 1, 10, 2, 9 (in the order of their strings), with
\* room for two triangles that share the edge 10 - 2
WidePool ==
    { <<T1, T10, T2>>,                         \* 1 10 2
      <<T1, T2, T2>>,                          \* 1 2 2
      <<T10, T2, Tm2>>,                        \* 10 2 -2
      <<T10, T9, T2>>,                         \* 10 9 2
      <<T2, T9, T2>> }                         \* 2 9 2

WideFiles == UNION {[1..n -> WidePool] : n \in 0..MaxWideLines}

InitWide ==
    /\ \/ fileExists = TRUE /\ file \in WideFiles
       \/ fileExists = FALSE /\ file = <<>>
    /\ pos_thresh = 1
    /\ neg_thresh = -1
    /\ pc = "open"
    /\ fpos = 1
    /\ lines_read = 0
    /\ G_sentiment = EmptyGraph
    /\ diag = <<>>
    /\ bi = 1
    /\ G_bin = EmptyGraph
    /\ ni = 1
    /\ ci = 1
    /\ counts = ZeroCounts
    /\ accepted = <<>>
    /\ outcome = "none"
    /\ ratio = None
    /\ lpc = "off"
    /\ root = None
    /\ limit = 0
    /\ vi = 1
    /\ wi = 1
    /\ seen_pairs = {}
    /\ frustrated_count = 0
    /\ found = <<>>
    /\ printed = <<>>
    /\ report = None
    /\ first = None
    /\ NetOff

SpecWide == InitWide /\ [][Next]_vars

\* what a call of analyze_weak_balance reported
Reported == [counts |-> counts, total |-> Total(counts), outcome |-> outcome,
             ratio |-> ratio]

\* analyze_weak_balance has returned and is called again with the same arguments:
\* G_sentiment and lines_read are created anew, the file is opened again; G_bin
\* and counts are created where the function reaches them
CallAgain ==
    /\ pc = "done"
    /\ first = None
    /\ first' = Reported
    /\ pc' = "open"
    /\ fpos' = 1
    /\ lines_read' = 0
    /\ G_sentiment' = EmptyGraph
    /\ diag' = <<>>
    /\ outcome' = "none"
    /\ ratio' = None
    /\ UNCHANGED <<bi, G_bin, ni, ci, counts, accepted>>
    /\ UNCHANGED <<netVars, inputVars, localVars>>

NextTwice ==
    \/ Next
    \/ CallAgain

SpecTwice == Init /\ [][NextTwice]_vars

----------------------------------------------------------------------------
\* encontrar_triangulos.py: load_data. The lines are drawn as the iterator
\* yields them: a first line, then at most MaxLocalLines further lines; the
\* variable file stays empty.

\* the body of the loop over the lines: the signed graph after the line
LoadDataLine(G, parts, pos, neg) ==
    IF Len(parts) = 3 /\ IsNumber(parts[3])
    THEN LET G2 == AddNode(AddNode(G, parts[1]), parts[2])
             s  == SignOf(NumValue(parts[3]), pos, neg)
         IN  IF s # 0 THEN AddEdge(G2, parts[1], parts[2], s) ELSE G2
    ELSE G

\* open() raises FileNotFoundError: sys.exit(1)
LdOpenMissing ==
    /\ lpc = "open"
    /\ ~fileExists
    /\ lpc' = "exit"
    /\ UNCHANGED <<root, limit, vi, wi, seen_pairs, frustrated_count, found,
                   printed, report>>
    /\ UNCHANGED <<netVars, first, inputVars, globalVars, G_bin>>

\* next(f) on a file without a line: StopIteration, which nothing catches
LdNoFirstLine ==
    /\ lpc = "open"
    /\ fileExists
    /\ lpc' = "crashed"
    /\ UNCHANGED <<root, limit, vi, wi, seen_pairs, frustrated_count, found,
                   printed, report>>
    /\ UNCHANGED <<netVars, first, inputVars, globalVars, G_bin>>

\* next(f): the first line is dropped, whatever it holds
LdSkipFirstLine ==
    /\ lpc = "open"
    /\ fileExists
    /\ lpc' = "load"
    /\ fpos' = 2
    /\ UNCHANGED <<root, limit, vi, wi, seen_pairs, frustrated_count, found,
                   printed, report>>
    /\ UNCHANGED <<netVars, first, inputVars, pc, lines_read, G_sentiment, diag, bi, ni, ci, counts,
                   accepted, outcome, ratio, G_bin>>

LdLine ==
    /\ lpc = "load"
    /\ fpos <= MaxLocalLines + 1
    /\ \E parts \in LinePool :
           G_bin' = LoadDataLine(G_bin, parts, pos_thresh, neg_thresh)
    /\ fpos' = fpos + 1
    /\ UNCHANGED localVars
    /\ UNCHANGED <<netVars, first, inputVars, pc, lines_read, G_sentiment, diag, bi, ni, ci, counts,
                   accepted, outcome, ratio>>

\* the file is exhausted; main: if not G: sys.exit(1)
LdEndEmpty ==
    /\ lpc = "load"
    /\ Len(G_bin.nodes) = 0
    /\ lpc' = "exit"
    /\ UNCHANGED <<root, limit, vi, wi, seen_pairs, frustrated_count, found,
                   printed, report>>
    /\ UNCHANGED <<netVars, first, inputVars, globalVars, G_bin>>

LdEnd ==
    /\ lpc = "load"
    /\ Len(G_bin.nodes) # 0
    /\ lpc' = "idle"
    /\ UNCHANGED <<root, limit, vi, wi, seen_pairs, frustrated_count, found,
                   printed, report>>
    /\ UNCHANGED <<netVars, first, inputVars, globalVars, G_bin>>

----------------------------------------------------------------------------
\* encontrar_triangulos.py: find_frustrated_triangles

\* mutant of SortedPair: the pair as discovered, not sorted
DiscoveredPair(v, w) == <<v, w>>

\* tuple(sorted((v, w)))
SortedPair(v, w) == IF StrGt(v, w) THEN <<w, v>> ELSE <<v, w>>

\* mutant of IsFrustrated: without the test of the sum
IsFrustratedByProduct(s_uv, s_uw, s_vw) == s_uv * s_uw * s_vw = -1

\* the frustration rule of the search
IsFrustrated(s_uv, s_uw, s_vw) ==
    (s_uv * s_uw * s_vw = -1) /\ (s_uv + s_uw + s_vw = 1)

\* mutant of Prints: the comparison is strict
PrintsBelowLimit(count, lim) == count < lim

\* frustrated_count <= limit: the triangle is printed
Prints(count, lim) == count <= lim

\* mutant of TooFewNeighbors: one neighbour is taken to be enough
TooFewNeighborsBelowOne(G, r) == Len(Neighbors(G, r)) < 1

\* len(neighbors_u) < 2
TooFewNeighbors(G, r) == Len(Neighbors(G, r)) < 2

\* the call, up to the first loop: a new search starts with its own locals
FindStart(r, lim) ==
    /\ lpc = "idle"
    /\ root' = r
    /\ limit' = lim
    /\ frustrated_count' = 0
    /\ seen_pairs' = {}
    /\ found' = <<>>
    /\ printed' = <<>>
    /\ vi' = 1
    /\ wi' = 1
    /\ IF ~HasNode(G_bin, r)
       THEN lpc' = "idle" /\ report' = [kind |-> "not_in_graph"]
       ELSE IF TooFewNeighbors(G_bin, r)
            THEN lpc' = "idle" /\ report' = [kind |-> "too_few_neighbors"]
            ELSE lpc' = "search" /\ report' = None
    /\ UNCHANGED <<netVars, first, inputVars, globalVars, G_bin>>

\* one iteration of the loop over G_bin.neighbors(v)
SearchW ==
    /\ lpc = "search"
    /\ vi <= Len(Neighbors(G_bin, root))
    /\ LET v    == Neighbors(G_bin, root)[vi]
           s_uv == EdgeData(G_bin, root, v)
           ws   == Neighbors(G_bin, v)
       IN  /\ wi <= Len(ws)
           /\ LET w    == ws[wi]
                  pair == SortedPair(v, w)
              IN  IF w = root \/ w = v \/ ~HasEdge(G_bin, root, w)
                     \/ pair \in seen_pairs
                  THEN UNCHANGED <<seen_pairs, frustrated_count, found, printed>>
                  ELSE LET s_uw == EdgeData(G_bin, root, w)
                           s_vw == EdgeData(G_bin, v, w)
                           t    == [v |-> v, w |-> w, s_uv |-> s_uv, s_uw |-> s_uw,
                                    s_vw |-> s_vw]
                       IN  /\ seen_pairs' = seen_pairs \cup {pair}
                           /\ IF IsFrustrated(s_uv, s_uw, s_vw)
                              THEN /\ frustrated_count' = frustrated_count + 1
                                   /\ found' = Append(found, t)
                                   /\ printed' =
                                        IF Prints(frustrated_count + 1, limit)
                                        THEN Append(printed,
                                                 [num |-> frustrated_count + 1, t |-> t])
                                        ELSE printed
                              ELSE UNCHANGED <<frustrated_count, found, printed>>
    /\ wi' = wi + 1
    /\ UNCHANGED <<lpc, root, limit, vi, report>>
    /\ UNCHANGED <<netVars, first, inputVars, globalVars, G_bin>>

\* mutant of SearchNextV: the outer loop does not advance
SearchNextVStays ==
    /\ lpc = "search"
    /\ vi <= Len(Neighbors(G_bin, root))
    /\ wi > Len(Neighbors(G_bin, Neighbors(G_bin, root)[vi]))
    /\ vi' = vi
    /\ wi' = 1
    /\ UNCHANGED <<lpc, root, limit, seen_pairs, frustrated_count, found, printed,
                   report>>
    /\ UNCHANGED <<netVars, first, inputVars, globalVars, G_bin>>

\* the neighbours of v are exhausted: the next v
SearchNextV ==
    /\ lpc = "search"
    /\ vi <= Len(Neighbors(G_bin, root))
    /\ wi > Len(Neighbors(G_bin, Neighbors(G_bin, root)[vi]))
    /\ vi' = vi + 1
    /\ wi' = 1
    /\ UNCHANGED <<lpc, root, limit, seen_pairs, frustrated_count, found, printed,
                   report>>
    /\ UNCHANGED <<netVars, first, inputVars, globalVars, G_bin>>

\* what the search prints after its loops
FinalReport(count, lim) ==
    [kind  |-> "done",
     total |-> count,
     more  |-> IF count > lim THEN count - lim ELSE None]

\* mutant of SearchEnd: the search empties the graph it was given
SearchEndDropsGraph ==
    /\ lpc = "search"
    /\ vi > Len(Neighbors(G_bin, root))
    /\ report' = FinalReport(frustrated_count, limit)
    /\ lpc' = "idle"
    /\ G_bin' = EmptyGraph
    /\ UNCHANGED <<root, limit, vi, wi, seen_pairs, frustrated_count, found,
                   printed>>
    /\ UNCHANGED <<netVars, first, inputVars, globalVars>>

SearchEnd ==
    /\ lpc = "search"
    /\ vi > Len(Neighbors(G_bin, root))
    /\ report' = FinalReport(frustrated_count, limit)
    /\ lpc' = "idle"
    /\ UNCHANGED <<root, limit, vi, wi, seen_pairs, frustrated_count, found,
                   printed>>
    /\ UNCHANGED <<netVars, first, inputVars, globalVars, G_bin>>

----------------------------------------------------------------------------
\* The run of the local tool: load_data, then any number of searches

InitLocal ==
    /\ fileExists \in BOOLEAN
    /\ file = <<>>
    /\ \E th \in ThresholdPairs : pos_thresh = th[1] /\ neg_thresh = th[2]
    /\ pc = "off"
    /\ fpos = 1
    /\ lines_read = 0
    /\ G_sentiment = EmptyGraph
    /\ diag = <<>>
    /\ bi = 1
    /\ G_bin = EmptyGraph
    /\ ni = 1
    /\ ci = 1
    /\ counts = ZeroCounts
    /\ accepted = <<>>
    /\ outcome = "none"
    /\ ratio = None
    /\ lpc = "open"
    /\ root = None
    /\ limit = 0
    /\ vi = 1
    /\ wi = 1
    /\ seen_pairs = {}
    /\ frustrated_count = 0
    /\ found = <<>>
    /\ printed = <<>>
    /\ report = None
    /\ first = None
    /\ NetOff

NextLocal ==
    \/ LdOpenMissing
    \/ LdNoFirstLine
    \/ LdSkipFirstLine
    \/ LdLine
    \/ LdEndEmpty
    \/ LdEnd
    \/ \E r \in NodeIds, lim \in 0..MaxLimit : FindStart(r, lim)
    \/ SearchW
    \/ SearchNextV
    \/ SearchEnd

SpecLocal == InitLocal /\ [][NextLocal]_vars

----------------------------------------------------------------------------
\* The two tools, each run from its start

InitTools == Init \/ InitLocal

NextTools == Next \/ NextLocal

SpecTools == InitTools /\ [][NextTools]_vars

\* the steps of load_data and of a search that has been called; which search is
\* called next, and whether one is, is the user's choice
LocalSteps ==
    \/ LdOpenMissing
    \/ LdNoFirstLine
    \/ LdSkipFirstLine
    \/ LdEndEmpty
    \/ LdEnd
    \/ SearchW
    \/ SearchNextV
    \/ SearchEnd

\* the runs whose ends are examined: every file of analyze_weak_balance under
\* the conventional thresholds, and every run of the local tool
InitLive ==
    \/ Init /\ pos_thresh = 1 /\ neg_thresh = -1
    \/ InitLocal

\* both tools are sequential programs: a step that can be taken is taken
SpecToolsLive ==
    InitLive /\ [][NextTools]_vars /\ WF_vars(Next) /\ WF_vars(LocalSteps)

----------------------------------------------------------------------------
\* entrega-parcial/main.py: make_request_with_backoff and collect_reviews_for_games

MaxRetries == 3     \* max_retries of a direct call is 0..MaxRetries
MaxGames == 2       \* game_list has at most this many entries
MaxPages == 2       \* max_review_pages is 0..MaxPages

DefaultMaxRetries == 5      \* max_retries: int = 5
DefaultBackoff == 1         \* initial_backoff: float = 1.0

Backoffs == {1, 2}          \* the values of initial_backoff of a direct call
AppIds == {440, 570}
Authors == {"a"}            \* the steamids a page can hold
GameLists == UNION {[1..n -> AppIds] : n \in 0..MaxGames}

toolVars == <<inputVars, globalVars, G_bin, localVars, first>>

\* the two tools of entrega-final are not running
ToolsOff ==
    /\ file = <<>> /\ fileExists = FALSE /\ pos_thresh = 0 /\ neg_thresh = 0
    /\ pc = "off" /\ fpos = 1 /\ lines_read = 0 /\ G_sentiment = EmptyGraph
    /\ diag = <<>> /\ bi = 1 /\ G_bin = EmptyGraph /\ ni = 1 /\ ci = 1
    /\ counts = ZeroCounts /\ accepted = <<>> /\ outcome = "none" /\ ratio = None
    /\ lpc = "off" /\ root = None /\ limit = 0 /\ vi = 1 /\ wi = 1
    /\ seen_pairs = {} /\ frustrated_count = 0 /\ found = <<>> /\ printed = <<>>
    /\ report = None /\ first = None

\* mutant of NextBackoff: the wait grows by one
NextBackoffPlusOne(b) == b + 1

\* backoff_time *= 2
NextBackoff(b) == b * 2

\* a requests.Response of status 200
Response200 == <<200>>

\* the loop body is entered: i in range(max_retries)
Trying == rpc = "try" /\ ri < max_retries

\* requests.get answers 200: return response
Get200 ==
    /\ Trying
    /\ statuses' = Append(statuses, "200")
    /\ response' = Response200
    /\ rpc' = "returned"
    /\ requested' = IF cpc = "response" THEN requested \cup {game_list[gi]} ELSE requested
    /\ UNCHANGED <<max_retries, initial_backoff, ri, backoff_time, sleeps>>
    /\ UNCHANGED <<cpc, game_list, max_review_pages, gi, page_num, reviews_data, cache,
                   reviews_by_game, downloads, run, firstMap>>
    /\ UNCHANGED toolVars

\* requests.get answers 429: sleep, double the wait, next iteration
Get429 ==
    /\ Trying
    /\ statuses' = Append(statuses, "429")
    /\ sleeps' = Append(sleeps, backoff_time)
    /\ backoff_time' = NextBackoff(backoff_time)
    /\ ri' = ri + 1
    /\ requested' = IF cpc = "response" THEN requested \cup {game_list[gi]} ELSE requested
    /\ UNCHANGED <<rpc, max_retries, initial_backoff, response>>
    /\ UNCHANGED <<cpc, game_list, max_review_pages, gi, page_num, reviews_data, cache,
                   reviews_by_game, downloads, run, firstMap>>
    /\ UNCHANGED toolVars

\* requests.get answers another status: return None
GetOtherStatus ==
    /\ Trying
    /\ statuses' = Append(statuses, "other")
    /\ response' = None
    /\ rpc' = "returned"
    /\ requested' = IF cpc = "response" THEN requested \cup {game_list[gi]} ELSE requested
    /\ UNCHANGED <<max_retries, initial_backoff, ri, backoff_time, sleeps>>
    /\ UNCHANGED <<cpc, game_list, max_review_pages, gi, page_num, reviews_data, cache,
                   reviews_by_game, downloads, run, firstMap>>
    /\ UNCHANGED toolVars

\* requests.get raises RequestException: sleep, double the wait, next iteration
GetRaises ==
    /\ Trying
    /\ statuses' = Append(statuses, "exception")
    /\ sleeps' = Append(sleeps, backoff_time)
    /\ backoff_time' = NextBackoff(backoff_time)
    /\ ri' = ri + 1
    /\ requested' = IF cpc = "response" THEN requested \cup {game_list[gi]} ELSE requested
    /\ UNCHANGED <<rpc, max_retries, initial_backoff, response>>
    /\ UNCHANGED <<cpc, game_list, max_review_pages, gi, page_num, reviews_data, cache,
                   reviews_by_game, downloads, run, firstMap>>
    /\ UNCHANGED toolVars

\* range(max_retries) is exhausted: the fatal message, return None
RetriesExhausted ==
    /\ rpc = "try"
    /\ ri >= max_retries
    /\ response' = None
    /\ rpc' = "returned"
    /\ UNCHANGED <<max_retries, initial_backoff, ri, backoff_time, statuses, sleeps>>
    /\ UNCHANGED collectVars
    /\ UNCHANGED toolVars

\* reviews_by_game[appid] = ...
Put(m, k, v) == [x \in DOMAIN m \cup {k} |-> IF x = k THEN v ELSE m[x]]

\* the cache file exists: its content is the game's entry
FromCache ==
    /\ cpc = "game"
    /\ gi <= Len(game_list)
    /\ game_list[gi] \in cache
    /\ reviews_by_game' = Put(reviews_by_game, game_list[gi], "cache")
    /\ gi' = gi + 1
    /\ UNCHANGED <<cpc, game_list, max_review_pages, page_num, reviews_data, cache,
                   requested, downloads, run, firstMap>>
    /\ UNCHANGED requestVars
    /\ UNCHANGED toolVars

\* no cache file: reviews_data = {}, and the loop over the pages starts
StartDownload ==
    /\ cpc = "game"
    /\ gi <= Len(game_list)
    /\ game_list[gi] \notin cache
    /\ reviews_data' = {}
    /\ page_num' = 0
    /\ downloads' = 0
    /\ cpc' = "page"
    /\ UNCHANGED <<game_list, max_review_pages, gi, cache, reviews_by_game, requested,
                   run, firstMap>>
    /\ UNCHANGED requestVars
    /\ UNCHANGED toolVars

\* response = make_request_with_backoff(url): the call, with the default arguments
RequestPage ==
    /\ cpc = "page"
    /\ page_num < max_review_pages
    /\ cpc' = "response"
    /\ downloads' = downloads + 1
    /\ rpc' = "try"
    /\ max_retries' = DefaultMaxRetries
    /\ initial_backoff' = DefaultBackoff
    /\ backoff_time' = DefaultBackoff
    /\ ri' = 0
    /\ statuses' = <<>>
    /\ sleeps' = <<>>
    /\ response' = None
    /\ UNCHANGED <<game_list, max_review_pages, gi, page_num, reviews_data, cache,
                   reviews_by_game, requested, run, firstMap>>
    /\ UNCHANGED toolVars

\* the frame of make_request_with_backoff is gone once its caller has the value
FrameDropped ==
    /\ rpc' = "idle"
    /\ max_retries' = 0
    /\ initial_backoff' = 0
    /\ backoff_time' = 0
    /\ ri' = 0
    /\ statuses' = <<>>
    /\ sleeps' = <<>>
    /\ response' = None

\* if not response: break
PageFailed ==
    /\ cpc = "response"
    /\ rpc = "returned"
    /\ response = None
    /\ cpc' = "finish"
    /\ FrameDropped
    /\ UNCHANGED <<game_list, max_review_pages, gi, page_num, reviews_data, cache,
                   reviews_by_game, requested, downloads, run, firstMap>>
    /\ UNCHANGED toolVars

\* the page has no data, no success or no reviews: break
PageEmpty ==
    /\ cpc = "response"
    /\ rpc = "returned"
    /\ response # None
    /\ cpc' = "finish"
    /\ FrameDropped
    /\ UNCHANGED <<game_list, max_review_pages, gi, page_num, reviews_data, cache,
                   reviews_by_game, requested, downloads, run, firstMap>>
    /\ UNCHANGED toolVars

\* the page has reviews: those with a steamid are kept; then break (fewer than
\* 100 reviews in total, or no cursor) or sleep and go on with the next page
PageReviews ==
    /\ cpc = "response"
    /\ rpc = "returned"
    /\ response # None
    /\ \E authors \in SUBSET Authors : reviews_data' = reviews_data \cup authors
    /\ \/ cpc' = "finish" /\ UNCHANGED page_num
       \/ cpc' = "page" /\ page_num' = page_num + 1
    /\ FrameDropped
    /\ UNCHANGED <<game_list, max_review_pages, gi, cache, reviews_by_game, requested,
                   downloads, run, firstMap>>
    /\ UNCHANGED toolVars

\* range(max_review_pages) is exhausted
PagesExhausted ==
    /\ cpc = "page"
    /\ page_num >= max_review_pages
    /\ cpc' = "finish"
    /\ UNCHANGED <<game_list, max_review_pages, gi, page_num, reviews_data, cache,
                   reviews_by_game, requested, downloads, run, firstMap>>
    /\ UNCHANGED requestVars
    /\ UNCHANGED toolVars

\* mutant of FinishGame: the game is added whatever was collected
FinishGameAlwaysAdds ==
    /\ cpc = "finish"
    /\ reviews_by_game' = Put(reviews_by_game, game_list[gi], "api")
    /\ cache' = IF reviews_data # {} THEN cache \cup {game_list[gi]} ELSE cache
    /\ gi' = gi + 1
    /\ cpc' = "game"
    /\ UNCHANGED <<game_list, max_review_pages, page_num, reviews_data, requested,
                   downloads, run, firstMap>>
    /\ UNCHANGED requestVars
    /\ UNCHANGED toolVars

\* after the pages: if reviews_data, the game is added and its cache file written
FinishGame ==
    /\ cpc = "finish"
    /\ IF reviews_data # {}
       THEN /\ reviews_by_game' = Put(reviews_by_game, game_list[gi], "api")
            /\ cache' = cache \cup {game_list[gi]}
       ELSE UNCHANGED <<reviews_by_game, cache>>
    /\ gi' = gi + 1
    /\ cpc' = "game"
    /\ UNCHANGED <<game_list, max_review_pages, page_num, reviews_data, requested,
                   downloads, run, firstMap>>
    /\ UNCHANGED requestVars
    /\ UNCHANGED toolVars

\* return reviews_by_game
ReturnReviews ==
    /\ cpc = "game"
    /\ gi > Len(game_list)
    /\ cpc' = "done"
    /\ UNCHANGED <<game_list, max_review_pages, gi, page_num, reviews_data, cache,
                   reviews_by_game, requested, downloads, run, firstMap>>
    /\ UNCHANGED requestVars
    /\ UNCHANGED toolVars

\* collect_reviews_for_games is run again on the same list; the cache directory
\* is what the first run left
RunAgain ==
    /\ cpc = "done"
    /\ run = 1
    /\ run' = 2
    /\ firstMap' = DOMAIN reviews_by_game
    /\ reviews_by_game' = <<>>
    /\ requested' = {}
    /\ gi' = 1
    /\ cpc' = "game"
    /\ UNCHANGED <<game_list, max_review_pages, page_num, reviews_data, cache, downloads>>
    /\ UNCHANGED requestVars
    /\ UNCHANGED toolVars

\* a direct call of make_request_with_backoff, or a run of
\* collect_reviews_for_games on some cache directory
InitNet ==
    /\ ToolsOff
    /\ statuses = <<>>
    /\ sleeps = <<>>
    /\ response = None
    /\ ri = 0
    /\ gi = 1
    /\ page_num = 0
    /\ reviews_data = {}
    /\ reviews_by_game = <<>>
    /\ requested = {}
    /\ downloads = 0
    /\ run = 1
    /\ firstMap = {}
    /\ \/ /\ rpc = "try"
          /\ max_retries \in 0..MaxRetries
          /\ initial_backoff \in Backoffs
          /\ backoff_time = initial_backoff
          /\ cpc = "off"
          /\ game_list = <<>>
          /\ max_review_pages = 0
          /\ cache = {}
       \/ /\ rpc = "idle"
          /\ max_retries = 0
          /\ initial_backoff = 0
          /\ backoff_time = 0
          /\ cpc = "game"
          /\ game_list \in GameLists
          /\ max_review_pages \in 0..MaxPages
          /\ cache \in SUBSET AppIds

NextNet ==
    \/ Get200
    \/ Get429
    \/ GetOtherStatus
    \/ GetRaises
    \/ RetriesExhausted
    \/ FromCache
    \/ StartDownload
    \/ RequestPage
    \/ PageFailed
    \/ PageEmpty
    \/ PageReviews
    \/ PagesExhausted
    \/ FinishGame
    \/ ReturnReviews
    \/ RunAgain

SpecNet == InitNet /\ [][NextNet]_vars

\* the script is sequential: a step that can be taken is taken
SpecNetLive == SpecNet /\ WF_vars(NextNet)

----------------------------------------------------------------------------
\* analyze_weak_balance as a function of its input: the three loops run to their end

RECURSIVE LoadFrom(_, _, _)
LoadFrom(G, f, i) ==
    IF i > Len(f) THEN G ELSE LoadFrom(LoadLine(G, f[i]), f, i + 1)

LoadFile(f) == LoadFrom(EmptyGraph, f, IF HeaderFound(f) THEN 2 ELSE 1)

RECURSIVE BinarizeFrom(_, _, _, _, _)
BinarizeFrom(Gb, es, i, pos, neg) ==
    IF i > Len(es) THEN Gb
    ELSE BinarizeFrom(BinarizeStep(Gb, es[i], pos, neg), es, i + 1, pos, neg)

Binarize(G, pos, neg) == BinarizeFrom(EmptyGraph, Edges(G), 1, pos, neg)

\* the triangles the loop body classifies while the outer loop is at u
AcceptedAt(G, u) ==
    IF Len(Neighbors(G, u)) < 2 THEN <<>>
    ELSE LET ps == SelectSeq(PairsOf(G, u), LAMBDA p : Accepts(G, u, p[1], p[2]))
         IN  [k \in DOMAIN ps |-> TriangleAt(G, u, ps[k][1], ps[k][2])]

RECURSIVE AcceptedFrom(_, _)
AcceptedFrom(G, i) ==
    IF i > Len(G.nodes) THEN <<>>
    ELSE AcceptedAt(G, G.nodes[i]) \o AcceptedFrom(G, i + 1)

CountsOf(log) ==
    [c \in Classes |-> Cardinality({i \in DOMAIN log : log[i].cls = c})]

RunCounts(f, pos, neg) ==
    LET Gb == Binarize(LoadFile(f), pos, neg)
    IN  IF NumberOfEdges(Gb) = 0 THEN ZeroCounts ELSE CountsOf(AcceptedFrom(Gb, 1))

\* load_data as a function of its input: the first line dropped, the others
\* binarized one by one
RECURSIVE LoadDataFrom(_, _, _, _, _)
LoadDataFrom(G, f, i, pos, neg) ==
    IF i > Len(f) THEN G
    ELSE LoadDataFrom(LoadDataLine(G, f[i], pos, neg), f, i + 1, pos, neg)

LoadData(f, pos, neg) == LoadDataFrom(EmptyGraph, f, 2, pos, neg)

----------------------------------------------------------------------------
\* Reference notions the properties are stated with

\* the classification rule of the data model (product and sum of the signs)
RuleClass(s1, s2, s3) ==
    IF s1 * s2 * s3 = 1
    THEN IF s1 + s2 + s3 = 3 THEN "+++" ELSE "+--"
    ELSE IF s1 + s2 + s3 = 1 THEN "++-" ELSE "---"

\* exhaustive enumeration: the sets of three mutually adjacent nodes
BruteTriangles(G) ==
    {T \in SUBSET Range(G.nodes) :
        /\ Cardinality(T) = 3
        /\ \A a \in T : \A b \in T \ {a} : HasEdge(G, a, b)}

TripleClass(G, T) ==
    LET a == CHOOSE x \in T : TRUE
        b == CHOOSE x \in T \ {a} : TRUE
        c == CHOOSE x \in T \ {a, b} : TRUE
    IN  RuleClass(EdgeData(G, a, b), EdgeData(G, a, c), EdgeData(G, b, c))

BruteCount(G, cls) == Cardinality({T \in BruteTriangles(G) : TripleClass(G, T) = cls})

NoSelfLoop(G) == \A n \in Range(G.nodes) : ~HasEdge(G, n, n)

\* the counting loop has run to its end
CountingDone == pc = "done" /\ outcome \in {"ratio", "no_triangles"}

\* binarization has run to its end
BinarizationDone ==
    \/ pc = "binarize" /\ bi > NumberOfEdges(G_sentiment)
    \/ pc = "count"
    \/ pc = "done" /\ outcome # "file_not_found"

EdgeLine(parts) == Len(parts) = 3 /\ IsNumber(parts[3])

Reorderings(n) == {p \in [1..n -> 1..n] : \A i, j \in 1..n : p[i] = p[j] => i = j}

\* the file is edge lines only, no pair repeated, no self-loop
PlainEdgeList(f) ==
    /\ \A i \in DOMAIN f : EdgeLine(f[i]) /\ f[i][1] # f[i][2]
    /\ \A i, j \in DOMAIN f :
          i # j => {f[i][1], f[i][2]} # {f[j][1], f[j][2]}

----------------------------------------------------------------------------
\* C1: when the counting loop has finished, every class counter equals the number
\* of triangles of that class found by brute force over all node triples (each
\* triangle counted exactly once), and the four counters sum to the brute-force
\* triangle count, whatever the insertion order. Stated here for signed graphs
\* without self-loops, where it already fails.
C1_EachTriangleOnce ==
    (CountingDone /\ NoSelfLoop(G_bin)) =>
        /\ \A cls \in Classes : counts[cls] = BruteCount(G_bin, cls)
        /\ Total(counts) = Cardinality(BruteTriangles(G_bin))

\* C2: two inputs with the same edge lines in a different order (no pair repeated)
\* and the same thresholds give the same four counts and the same total. Stated
\* here for inputs without self-loop lines, where it already fails.
C2_OrderIndependent ==
    (CountingDone /\ PlainEdgeList(file)) =>
        \A p \in Reorderings(Len(file)) :
            LET g == [i \in 1..Len(file) |-> file[p[i]]]
            IN  /\ RunCounts(g, pos_thresh, neg_thresh) = counts
                /\ Total(RunCounts(g, pos_thresh, neg_thresh)) = Total(counts)

----------------------------------------------------------------------------
\* Reference notions for the local search

\* a search has run through its loops and printed its final report
SearchDone == lpc = "idle" /\ report # None /\ report.kind = "done"

\* a search has returned before its loops
SearchRefused == lpc = "idle" /\ report # None /\ report.kind # "done"

\* exactly one of the three signs is negative
TwoPlusOneMinus(s1, s2, s3) ==
    Cardinality({i \in 1..3 : <<s1, s2, s3>>[i] = -1}) = 1

\* the pairs {v, w} with {r, v, w} a ++- triangle, by exhaustive enumeration
BruteFrustratedPairs(G, r) ==
    {T \ {r} : T \in {X \in BruteTriangles(G) : r \in X /\ TripleClass(G, X) = "++-"}}

FoundPairs == {{found[i].v, found[i].w} : i \in DOMAIN found}

\* the pairs the two loops reach through r: v a neighbour of r, w a neighbour of
\* v and of r other than r and v, one of the three signs negative
ReachedFrustratedPairs(G, r) ==
    LET N == Range(Neighbors(G, r))
    IN  {SortedPair(q[1], q[2]) :
            q \in {x \in N \X N :
                      /\ x[2] # r
                      /\ x[2] # x[1]
                      /\ HasEdge(G, x[1], x[2])
                      /\ TwoPlusOneMinus(EdgeData(G, r, x[1]), EdgeData(G, r, x[2]),
                                         EdgeData(G, x[1], x[2]))}}

Min(a, b) == IF a < b THEN a ELSE b

\* the lines the loop of the loader reads
BodyStart == IF HeaderFound(file) THEN 2 ELSE 1

Malformed(parts) == Len(parts) > 0 /\ ~EdgeLine(parts)

\* the graph of the edge lines alone
RECURSIVE EdgeLinesGraph(_, _, _)
EdgeLinesGraph(G, f, i) ==
    IF i > Len(f) THEN G
    ELSE EdgeLinesGraph(IF EdgeLine(f[i])
                        THEN AddEdge(G, f[i][1], f[i][2], NumValue(f[i][3]))
                        ELSE G, f, i + 1)

----------------------------------------------------------------------------
\* C3: for a root r with at least two signed neighbours, the pairs {v, w} the
\* search counts as frustrated are exactly the pairs for which {r, v, w} is a
\* triangle with two positive signs and one negative, by exhaustive enumeration.
C3_LocalEqualsBrute ==
    SearchDone => FoundPairs = BruteFrustratedPairs(G_bin, root)

\* C4: the class the global pass increments for a triple of signs is the one the
\* rule gives (product and sum of the signs): every classified triangle carries
\* the rule's class, and every counter is the number of classified triangles
\* whose rule class it is.
C4_ClassRule ==
    /\ \A i \in DOMAIN accepted :
          accepted[i].cls = RuleClass(accepted[i].s_uv, accepted[i].s_uw,
                                      accepted[i].s_vw)
    /\ \A c \in Classes :
          counts[c] = Cardinality({i \in DOMAIN accepted :
                          RuleClass(accepted[i].s_uv, accepted[i].s_uw,
                                    accepted[i].s_vw) = c})

C4_Witness == pc = "done" /\ counts["+--"] = 1 /\ counts["++-"] = 0

C7_TotalAndCap ==
    SearchDone =>
        /\ report.total = Len(found)
        /\ report.total = Cardinality(ReachedFrustratedPairs(G_bin, root))
        /\ Len(printed) = Min(report.total, limit)
        /\ \A i \in DOMAIN printed : printed[i].num = i /\ printed[i].t = found[i]
        /\ report.more = IF report.total > limit THEN report.total - limit ELSE None

C7_Witness ==
    SearchDone /\ report.total = 2 /\ limit = 1 /\ Len(printed) = 1 /\ report.more = 1

\* C8: a root that is no node of the signed graph, or has fewer than two signed
\* neighbours, makes the search return at once with its "no triangles possible"
\* message: the loops are not entered, nothing is found or printed, and no
\* frustrated count is reported.
C8_NoTrianglesPossible ==
    /\ lpc = "search" => (HasNode(G_bin, root) /\ Len(Neighbors(G_bin, root)) >= 2)
    /\ (lpc = "idle" /\ report # None) =>
          IF ~HasNode(G_bin, root)
          THEN report = [kind |-> "not_in_graph"]
               /\ found = <<>> /\ printed = <<>> /\ frustrated_count = 0
          ELSE IF Len(Neighbors(G_bin, root)) < 2
               THEN report = [kind |-> "too_few_neighbors"]
                    /\ found = <<>> /\ printed = <<>> /\ frustrated_count = 0
               ELSE report.kind = "done"

C8_Witness ==
    /\ SearchRefused
    /\ report.kind = "too_few_neighbors"
    /\ Len(Neighbors(G_bin, root)) = 1

\* C9: a ratio is reported only when at least one triangle was counted, and it is
\* the number of ++- triangles over the number of all triangles (between 0 and
\* 1); when the pass ends with no triangle the outcome is "no triangles found"
\* and no ratio exists.
C9_Ratio ==
    /\ outcome = "ratio" =>
          /\ Len(accepted) > 0
          /\ ratio = <<Cardinality({i \in DOMAIN accepted : accepted[i].cls = "++-"}),
                       Len(accepted)>>
          /\ 0 <= ratio[1] /\ ratio[1] <= ratio[2]
    /\ (CountingDone /\ Total(counts) = 0) => outcome = "no_triangles"
    /\ outcome # "ratio" => ratio = None

C9_Witness == outcome = "ratio" /\ ratio = <<1, 1>>

\* C10: a non-empty line read by the loop of the loader that has not three tokens,
\* or whose third token is no number, gets exactly one message, adds nothing to
\* the graph, and does not stop the load: the graph is the graph of the edge
\* lines, and every line is read.
C10_SkipMalformed ==
    (fileExists /\ pc \notin {"open", "load"}) =>
        /\ G_sentiment = EdgeLinesGraph(EmptyGraph, file, BodyStart)
        /\ {diag[k].line : k \in DOMAIN diag}
              = {i \in DOMAIN file : i >= BodyStart /\ Malformed(file[i])}
        /\ \A k \in DOMAIN diag : \A l \in DOMAIN diag :
              k < l => diag[k].line < diag[l].line
        /\ lines_read = Len(file)

C10_Witness ==
    /\ pc = "binarize"
    /\ Len(file) = 3
    /\ EdgeLine(file[1]) /\ Malformed(file[2]) /\ EdgeLine(file[3])
    /\ NumberOfEdges(G_sentiment) = 2
    /\ Len(diag) = 1

----------------------------------------------------------------------------
\* Reference notions for the loader

\* the line consists of two integers
TwoIntegers(parts) == Len(parts) = 2 /\ IsNumber(parts[1]) /\ IsNumber(parts[2])

FirstLineIsHeader == file # <<>> /\ TwoIntegers(file[1])

\* the loader has read the file to its end
LoadDone == fileExists /\ pc \notin {"open", "load"}

\* the lines of the loop that are edge lines for the pair {u, v}
LinesFor(u, v) ==
    LET start == BodyStart
    IN  {i \in DOMAIN file :
            i >= start /\ EdgeLine(file[i]) /\ {file[i][1], file[i][2]} = {u, v}}

Last(S) == CHOOSE i \in S : \A j \in S : j <= i

LastWeight(u, v) == NumValue(file[Last(LinesFor(u, v))][3])

\* the sign the thresholds give a weight, 0 for none
SignFor(w) == IF w > pos_thresh THEN 1 ELSE IF w < neg_thresh THEN -1 ELSE 0

\* three edge lines on three nodes, one per pair, each weight past a threshold
SingleTriangleFile ==
    /\ Len(file) = 3
    /\ PlainEdgeList(file)
    /\ Cardinality(UNION {{file[i][1], file[i][2]} : i \in DOMAIN file}) = 3
    /\ \A i \in DOMAIN file : SignFor(NumValue(file[i][3])) # 0

----------------------------------------------------------------------------
\* C11: the first line is skipped exactly when it consists of two integers;
\* otherwise the loop reads it again, so every edge line of the file is in the
\* graph and the header changes nothing of it. A header followed by one edge line
\* above pos_thresh gives one Positive edge and no triangle.
C11_Header ==
    LoadDone =>
        /\ \A i \in DOMAIN file :
              EdgeLine(file[i]) => HasEdge(G_sentiment, file[i][1], file[i][2])
        /\ FirstLineIsHeader =>
              /\ G_sentiment = EdgeLinesGraph(EmptyGraph, Tail(file), 1)
              /\ \A k \in DOMAIN diag : diag[k].line # 1
        /\ (file # <<>> /\ ~FirstLineIsHeader) =>
              /\ G_sentiment = EdgeLinesGraph(EmptyGraph, file, 1)
              /\ Malformed(file[1]) <=> (\E k \in DOMAIN diag : diag[k].line = 1)
        /\ file = <<>> => G_sentiment = EmptyGraph
        /\ (/\ pc = "done"
            /\ FirstLineIsHeader
            /\ Len(file) = 2
            /\ EdgeLine(file[2])
            /\ NumValue(file[2][3]) > pos_thresh) =>
              /\ NumberOfEdges(G_bin) = 1
              /\ HasEdge(G_bin, file[2][1], file[2][2])
              /\ EdgeData(G_bin, file[2][1], file[2][2]) = 1
              /\ outcome = "no_triangles"
              /\ Total(counts) = 0

C11_Witness ==
    /\ pc = "done"
    /\ FirstLineIsHeader
    /\ Len(file) = 2
    /\ EdgeLine(file[2])
    /\ file[2][1] # file[2][2]
    /\ outcome = "no_triangles"

\* C12: the weighted graph holds at most one edge per unordered pair, its weight
\* that of the last edge line for the pair in either orientation; the sign after
\* binarization is the one the thresholds give that last weight.
C12_LastWriteWins ==
    LoadDone =>
        LET E == Edges(G_sentiment) IN
        \A u \in NodeIds : \A v \in NodeIds :
            /\ Cardinality({k \in DOMAIN E : {E[k].u, E[k].v} = {u, v}}) <= 1
            /\ IF LinesFor(u, v) = {}
               THEN ~HasEdge(G_sentiment, u, v)
               ELSE LET w == LastWeight(u, v) IN
                    /\ HasEdge(G_sentiment, u, v)
                    /\ HasEdge(G_sentiment, v, u)
                    /\ EdgeData(G_sentiment, u, v) = w
                    /\ EdgeData(G_sentiment, v, u) = w
                    /\ BinarizationDone =>
                          IF SignFor(w) = 0
                          THEN ~HasEdge(G_bin, u, v)
                          ELSE /\ HasEdge(G_bin, u, v)
                               /\ EdgeData(G_bin, u, v) = SignFor(w)

C12_Witness ==
    /\ pc = "done"
    /\ pos_thresh = 1
    /\ \E i \in DOMAIN file : \E j \in DOMAIN file :
          i < j /\ file[i] = <<T10, T9, Tm2>> /\ file[j] = <<T9, T10, T2>>
    /\ EdgeData(G_sentiment, T10, T9) = 2
    /\ EdgeData(G_bin, T10, T9) = 1

\* C13: a graph that is exactly one triangle, its three edge lines in any order,
\* gives a total of 1 with the counter of its sign pattern at 1, and a ratio of
\* 1.0 for ++- and 0.0 for +++.
C13_SingleTriangle ==
    (CountingDone /\ SingleTriangleFile) =>
        LET cls == TripleClass(G_bin, Range(G_bin.nodes))
        IN  /\ Total(counts) = 1
            /\ counts[cls] = 1
            /\ cls = "++-" => ratio = <<1, 1>>
            /\ cls = "+++" => ratio = <<0, 1>>

C18_AtMostOnce ==
    (pc \in {"count", "done"} /\ NoSelfLoop(G_bin)) =>
        \A cls \in Classes : counts[cls] <= BruteCount(G_bin, cls)

C18_Witness ==
    /\ CountingDone
    /\ NoSelfLoop(G_bin)
    /\ Total(counts) = 1
    /\ Cardinality(BruteTriangles(G_bin)) = 1

\* C19: every triangle the global pass counts consists of three pairwise
\* distinct nodes, also when the input holds a self-loop line.
C19_DistinctNodes ==
    \A i \in DOMAIN accepted :
        Cardinality({accepted[i].u, accepted[i].v, accepted[i].w}) = 3

----------------------------------------------------------------------------
\* Reference notions for the counting loop

\* the nodes of an accepted triangle
TripleOf(t) == {t.u, t.v, t.w}

\* the number of triangles of a class the loop body accepts at node u
ContributionOf(G, u, cls) ==
    Cardinality({k \in DOMAIN AcceptedAt(G, u) : AcceptedAt(G, u)[k].cls = cls})

\* the contributions of the nodes of a set, summed in no particular order
RECURSIVE SumOver(_, _, _)
SumOver(G, S, cls) ==
    IF S = {} THEN 0
    ELSE LET u == CHOOSE x \in S : TRUE
         IN  ContributionOf(G, u, cls) + SumOver(G, S \ {u}, cls)

\* the contributions summed along a given order of the node list
RECURSIVE SumAlong(_, _, _, _)
SumAlong(G, p, i, cls) ==
    IF i > Len(G.nodes) THEN 0
    ELSE ContributionOf(G, G.nodes[p[i]], cls) + SumAlong(G, p, i + 1, cls)

----------------------------------------------------------------------------
\* C16: a triple is accepted only at its node smallest in the string order;
\* triangles accepted at different outer nodes are different triples; the
\* contributions of the nodes, each computed from the graph alone and summed in
\* any order, are the counts of the sequential loop.
C16_PerNode ==
    /\ \A i \in DOMAIN accepted :
          /\ ~StrGt(accepted[i].u, accepted[i].v)
          /\ ~StrGt(accepted[i].u, accepted[i].w)
    /\ \A i \in DOMAIN accepted : \A j \in DOMAIN accepted :
          accepted[i].u # accepted[j].u => TripleOf(accepted[i]) # TripleOf(accepted[j])
    /\ CountingDone =>
          \A cls \in Classes :
              /\ counts[cls] = SumOver(G_bin, Range(G_bin.nodes), cls)
              /\ \A p \in Reorderings(Len(G_bin.nodes)) :
                    counts[cls] = SumAlong(G_bin, p, 1, cls)

C16_Witness ==
    /\ CountingDone
    /\ NoSelfLoop(G_bin)
    /\ Len(accepted) = 2
    /\ accepted[1].u = T1
    /\ accepted[2].u = T10

\* C17: the counters never decrease; every accepted triangle adds exactly 1 to
\* exactly one counter and nothing else changes a counter; while the loop runs
\* the counters are at most their final values.
C17_Monotone ==
    /\ [](pc = "count" =>
             \A cls \in Classes :
                 counts[cls] <= RunCounts(file, pos_thresh, neg_thresh)[cls])
    /\ [](CountingDone => counts = RunCounts(file, pos_thresh, neg_thresh))
    /\ [][/\ \A cls \in Classes : counts'[cls] >= counts[cls]
          /\ IF accepted' # accepted
             THEN /\ Len(accepted') = Len(accepted) + 1
                  /\ \E cls \in Classes :
                        /\ counts'[cls] = counts[cls] + 1
                        /\ accepted'[Len(accepted')].cls = cls
                        /\ \A other \in Classes \ {cls} : counts'[other] = counts[other]
             ELSE counts' = counts]_vars

C17_Witness ==
    /\ pc = "count"
    /\ ni = 2
    /\ counts["++-"] = 1
    /\ RunCounts(file, pos_thresh, neg_thresh)["++-"] = 2

----------------------------------------------------------------------------
\* C14: the global classification run twice on the same input reports the same
\* counts, total, outcome and ratio; each run's counts are the function
\* RunCounts of the input, nothing of the first run is left in the second.
C14_SameTwice ==
    /\ (pc = "done" /\ first # None) => Reported = first
    /\ CountingDone => counts = RunCounts(file, pos_thresh, neg_thresh)
    /\ (pc = "count" /\ first # None) =>
          \A cls \in Classes :
              counts[cls] <= RunCounts(file, pos_thresh, neg_thresh)[cls]

C14_Witness ==
    /\ pc = "done"
    /\ first # None
    /\ first.total >= 1
    /\ lines_read = Len(file)

----------------------------------------------------------------------------
\* Reference notions for the search

\* the pairs {v, w} the two loops of a search at r come to classify: v a
\* neighbour of r, w a neighbour of v and of r, other than r and v
ClosingPairs(G, r) ==
    LET N == Range(Neighbors(G, r))
    IN  UNION {{{v, w} : w \in {x \in N : x # r /\ x # v /\ HasEdge(G, v, x)}} :
                  v \in N}

SeenSets == {{p[1], p[2]} : p \in seen_pairs}

\* a search is in its loops or has run them to their end
Searching == lpc = "search" \/ SearchDone

----------------------------------------------------------------------------
\* C20: within a call every unordered pair {v, w} is classified at most once,
\* though it is discovered from v and from w: no triangle is counted or printed
\* twice; seen_pairs is empty when a call starts, so at its end it holds the
\* pairs of this root only, all of them.
C20_SeenPairs ==
    Searching =>
        /\ \A i \in DOMAIN found : \A j \in DOMAIN found :
              i # j => {found[i].v, found[i].w} # {found[j].v, found[j].w}
        /\ \A i \in DOMAIN printed : \A j \in DOMAIN printed :
              i # j => /\ {printed[i].t.v, printed[i].t.w} # {printed[j].t.v, printed[j].t.w}
                       /\ printed[i].num # printed[j].num
        /\ frustrated_count = Len(found)
        /\ Len(found) <= Cardinality(seen_pairs)
        /\ Cardinality(SeenSets) = Cardinality(seen_pairs)
        /\ FoundPairs \subseteq SeenSets
        /\ SeenSets \subseteq ClosingPairs(G_bin, root)
        /\ (lpc = "search" /\ vi = 1 /\ wi = 1) => seen_pairs = {}
        /\ SearchDone => SeenSets = ClosingPairs(G_bin, root)

C20_Witness ==
    /\ SearchDone
    /\ NoSelfLoop(G_bin)
    /\ Len(found) = 1
    /\ Len(printed) = 1
    /\ Cardinality(seen_pairs) = 1
    /\ found[1].v \in Range(Neighbors(G_bin, found[1].w))
    /\ found[1].w \in Range(Neighbors(G_bin, found[1].v))

----------------------------------------------------------------------------
\* Reference notions for the sign rules

Signs == {1, -1}

\* the six orders of a triple
Orders(s1, s2, s3) ==
    {<<s1, s2, s3>>, <<s1, s3, s2>>, <<s2, s1, s3>>, <<s2, s3, s1>>, <<s3, s1, s2>>,
     <<s3, s2, s1>>}

\* the nodes the run has loaded
LoadedNodes == Range(G_sentiment.nodes) \cup Range(G_bin.nodes)

----------------------------------------------------------------------------
\* C21: the comparison str(a) > str(b) is a strict total order on the nodes of
\* the loaded graph: irreflexive, transitive, and any two distinct nodes are
\* comparable, also "9" and "10" (where "9" is the greater).
C21_StrictTotalOrder ==
    /\ \A a \in LoadedNodes :
          /\ ~StrGt(a, a)
          /\ \A b \in LoadedNodes :
                /\ a # b => (StrGt(a, b) \/ StrGt(b, a))
                /\ ~(StrGt(a, b) /\ StrGt(b, a))
                /\ \A c \in LoadedNodes : (StrGt(a, b) /\ StrGt(b, c)) => StrGt(a, c)
    /\ ({T9, T10} \subseteq LoadedNodes) => (StrGt(T9, T10) /\ ~StrGt(T10, T9))
    /\ \A i \in DOMAIN accepted :
          \A n \in TripleOf(accepted[i]) : ~StrGt(accepted[i].u, n)

C21_Witness ==
    /\ CountingDone
    /\ Range(G_bin.nodes) = {T1, T10, T2, T9}
    /\ Len(accepted) = 2

\* C22: the class of a triangle depends on the multiset of its three signs only:
\* in every order of the three signs the classifier of the global pass gives the
\* same class and the frustrated test of the search the same answer.
C22_OrderOfSigns ==
    /\ \A i \in DOMAIN accepted :
          \A p \in Orders(accepted[i].s_uv, accepted[i].s_uw, accepted[i].s_vw) :
              /\ Classify(p[1], p[2], p[3]) = accepted[i].cls
              /\ IsFrustrated(p[1], p[2], p[3]) =
                     IsFrustrated(accepted[i].s_uv, accepted[i].s_uw, accepted[i].s_vw)
    /\ CountingDone =>
          \A s1 \in Signs : \A s2 \in Signs : \A s3 \in Signs :
              \A p \in Orders(s1, s2, s3) :
                  /\ Classify(p[1], p[2], p[3]) = Classify(s1, s2, s3)
                  /\ IsFrustrated(p[1], p[2], p[3]) = IsFrustrated(s1, s2, s3)

C22_Witness ==
    /\ CountingDone
    /\ \E i \in DOMAIN accepted :
          /\ accepted[i].s_uv = -1 /\ accepted[i].s_uw = 1 /\ accepted[i].s_vw = -1
          /\ accepted[i].cls = "+--"

\* C27: the frustrated test of the search (product -1 and sum +1) holds of
\* exactly the sign triples the global pass counts as ++-.
C27_FrustratedIsTwoPlusOneMinus ==
    /\ \A i \in DOMAIN accepted :
          IsFrustrated(accepted[i].s_uv, accepted[i].s_uw, accepted[i].s_vw)
              <=> accepted[i].cls = "++-"
    /\ \A s1 \in Signs : \A s2 \in Signs : \A s3 \in Signs :
          IsFrustrated(s1, s2, s3) <=> Classify(s1, s2, s3) = "++-"

C27_Witness ==
    /\ CountingDone
    /\ counts["++-"] = 1
    /\ \E i \in DOMAIN accepted :
          /\ accepted[i].cls = "++-"
          /\ IsFrustrated(accepted[i].s_uv, accepted[i].s_uw, accepted[i].s_vw)

\* C28: with overlapping thresholds a weight above pos_thresh and below
\* neg_thresh gives one Positive edge; for all thresholds the signed graph has at
\* most one edge per pair, its sign +1 or -1 and the same from both ends.
C28_OneSign ==
    BinarizationDone =>
        LET E == Edges(G_bin) IN
        /\ \A k \in DOMAIN E : E[k].data \in Signs
        /\ \A u \in NodeIds : \A v \in NodeIds :
              /\ Cardinality({k \in DOMAIN E : {E[k].u, E[k].v} = {u, v}}) <= 1
              /\ HasEdge(G_bin, u, v) =>
                    /\ HasEdge(G_bin, v, u)
                    /\ EdgeData(G_bin, u, v) = EdgeData(G_bin, v, u)
                    /\ EdgeData(G_bin, u, v) \in Signs
              /\ (/\ neg_thresh > pos_thresh
                  /\ LinesFor(u, v) # {}
                  /\ LastWeight(u, v) > pos_thresh
                  /\ LastWeight(u, v) < neg_thresh) =>
                    /\ HasEdge(G_bin, u, v)
                    /\ EdgeData(G_bin, u, v) = 1

C28_Witness ==
    /\ pc = "done"
    /\ neg_thresh > pos_thresh
    /\ LinesFor(T2, T9) # {}
    /\ LastWeight(T2, T9) = 0
    /\ EdgeData(G_bin, T2, T9) = 1

----------------------------------------------------------------------------
\* Reference notions for the comparison of signed graphs

\* the same nodes, the same edges and the same signs, in whatever order
SameSigned(G1, G2) ==
    /\ Range(G1.nodes) = Range(G2.nodes)
    /\ \A u \in Range(G1.nodes) : \A v \in Range(G1.nodes) :
          /\ HasEdge(G1, u, v) <=> HasEdge(G2, u, v)
          /\ HasEdge(G1, u, v) => EdgeData(G1, u, v) = EdgeData(G2, u, v)

----------------------------------------------------------------------------
\* C23: every triangle a search reports for its root r with v and w is a triangle
\* of the signed graph on three different nodes, and its three signs are those
\* of r-v, r-w and v-w, two positive and one negative.
C23_RealTriangles ==
    Searching =>
        \A i \in DOMAIN found :
            LET t == found[i]
            IN  /\ t.v # t.w /\ t.v # root /\ t.w # root
                /\ HasEdge(G_bin, root, t.v)
                /\ HasEdge(G_bin, root, t.w)
                /\ HasEdge(G_bin, t.v, t.w)
                /\ t.s_uv = EdgeData(G_bin, root, t.v)
                /\ t.s_uw = EdgeData(G_bin, root, t.w)
                /\ t.s_vw = EdgeData(G_bin, t.v, t.w)
                /\ TwoPlusOneMinus(t.s_uv, t.s_uw, t.s_vw)

\* C26: for the same file and thresholds load_data builds the signed graph that
\* analyze_weak_balance builds: the same nodes, edges and signs.
C26_SameSignedGraph ==
    (fileExists /\ file # <<>> /\ BinarizationDone) =>
        SameSigned(G_bin, LoadData(file, pos_thresh, neg_thresh))

----------------------------------------------------------------------------
\* C24: the signed graph is only read once it is built: no step of the counting
\* loop and no step of any search changes its nodes, edges or signs; during the
\* counting loop it is the graph the binarization built.
C24_ReadOnly ==
    /\ []((pc = "count" \/ CountingDone) =>
             G_bin = Binarize(G_sentiment, pos_thresh, neg_thresh))
    /\ [][(pc = "count" \/ lpc \in {"idle", "search"}) => G_bin' = G_bin]_vars

C24_Witness ==
    /\ SearchDone
    /\ frustrated_count = 1
    /\ NumberOfEdges(G_bin) = 3
    /\ NoSelfLoop(G_bin)

\* C25: the global pass ends in its final report and stays there, and no search
\* stays in its loops: each leaves them with its final report. The outer and
\* inner loop positions only move forward, so every node and every pair of its
\* neighbours (every neighbour v of the root and every neighbour of v) is visited
\* once.
C25_Terminates ==
    /\ <>[](pc \in {"off", "done"})
    /\ []<>(lpc # "search")
    /\ [](lpc = "idle" => (report = None \/ SearchDone \/ SearchRefused))
    /\ [](pc = "count" => ni <= Len(G_bin.nodes) + 1)
    /\ [](lpc = "search" => vi <= Len(Neighbors(G_bin, root)) + 1)
    /\ [][(pc = "count" /\ pc' = "count") =>
            \/ ni' = ni + 1
            \/ ni' = ni /\ ci' = ci + 1 /\ ci <= Len(PairsOf(G_bin, G_bin.nodes[ni]))]_vars
    /\ [][(lpc = "search" /\ lpc' = "search") =>
            \/ vi' = vi + 1
            \/ /\ vi' = vi
               /\ wi' = wi + 1
               /\ wi <= Len(Neighbors(G_bin, Neighbors(G_bin, root)[vi]))]_vars

C25_Witness ==
    /\ SearchDone
    /\ vi = Len(Neighbors(G_bin, root)) + 1
    /\ Len(Neighbors(G_bin, root)) = 2
    /\ frustrated_count = 1

----------------------------------------------------------------------------
\* Reference notions for main.py

Retryable(st) == st \in {"429", "exception"}

RECURSIVE Pow2(_)
Pow2(n) == IF n = 0 THEN 1 ELSE 2 * Pow2(n - 1)

\* the requests of the call so far were all retryable failures
AllRetryable(sts) == \A k \in DOMAIN sts : Retryable(sts[k])

\* the game the loop of collect_reviews_for_games is at
CurrentGame == game_list[gi]

----------------------------------------------------------------------------
\* C29: make_request_with_backoff issues at most max_retries requests and every
\* call returns: the response at the first 200, None without a further request at
\* the first status other than 200 and 429, None after max_retries retryable
\* failures; only a 429 or a connection error is followed by another request, and
\* the wait after the k-th of them is initial_backoff * 2^(k-1).
C29_Backoff ==
    /\ []<>(rpc # "try")
    /\ [](rpc \in {"try", "returned"} =>
             /\ Len(statuses) <= max_retries
             /\ \A k \in 1..(Len(statuses) - 1) : Retryable(statuses[k])
             /\ Len(sleeps) = Cardinality({k \in DOMAIN statuses : Retryable(statuses[k])})
             /\ \A k \in DOMAIN sleeps : sleeps[k] = initial_backoff * Pow2(k - 1)
             /\ rpc = "try" => AllRetryable(statuses) /\ ri = Len(statuses))
    /\ [](rpc = "returned" =>
             IF statuses # <<>> /\ statuses[Len(statuses)] = "200"
             THEN response = Response200
             ELSE /\ response = None
                  /\ \/ statuses # <<>> /\ statuses[Len(statuses)] = "other"
                     \/ Len(statuses) = max_retries /\ AllRetryable(statuses))
    /\ [][rpc = "returned" => statuses' = statuses \/ statuses' = <<>>]_vars

C29_Witness ==
    /\ rpc = "returned"
    /\ cpc = "off"
    /\ max_retries = MaxRetries
    /\ initial_backoff = 2
    /\ Len(statuses) = MaxRetries
    /\ AllRetryable(statuses)
    /\ sleeps[MaxRetries] = 2 * Pow2(MaxRetries - 1)
    /\ response = None

\* C30: a game whose cache file exists when the loop reaches it is answered from
\* the cache without a request; a game without one gets at most
\* max_review_pages calls of make_request_with_backoff, and it is added to the
\* mapping and its cache file written exactly when reviews_data is not empty. So
\* every game of the mapping has a cache file, and a repeated run issues no
\* request for a game the first run returned.
C30_Cache ==
    /\ [](cpc # "off" =>
             /\ DOMAIN reviews_by_game \subseteq cache
             /\ downloads <= max_review_pages
             /\ cpc \in {"page", "response", "finish"} => CurrentGame \notin cache
             /\ run = 2 =>
                   /\ requested \cap firstMap = {}
                   /\ firstMap \subseteq cache
                   /\ cpc = "done" =>
                         \A g \in firstMap :
                             /\ g \in DOMAIN reviews_by_game
                             /\ reviews_by_game[g] = "cache")
    /\ [][(cpc = "game" /\ gi <= Len(game_list) /\ CurrentGame \in cache) =>
             /\ cpc' = "game"
             /\ gi' = gi + 1
             /\ requested' = requested
             /\ statuses' = statuses
             /\ CurrentGame \in DOMAIN reviews_by_game'
             /\ reviews_by_game'[CurrentGame] = "cache"]_vars
    /\ [][cpc = "finish" =>
             /\ (reviews_data # {}) <=> (CurrentGame \in cache')
             /\ (reviews_data # {}) <=> (CurrentGame \in DOMAIN reviews_by_game')
             /\ reviews_data # {} => reviews_by_game'[CurrentGame] = "api"]_vars

C30_Witness ==
    /\ cpc = "done"
    /\ run = 2
    /\ game_list = <<440, 570>>
    /\ firstMap = {440}
    /\ cache = {440}
    /\ requested = {570}
    /\ reviews_by_game[440] = "cache"

====
